---- MODULE Spec2Model ----
(***************************************************************************)
(* Model of the irrigation cross-check AppDaemon app.                      *)
(*                                                                         *)
(* Two variants of the app live in the repository:                         *)
(*   "retry": src/apps/irrigation_check/irrigation_check.py                *)
(*            (30 s settle delay, 60 s retries on a stale sensor)          *)
(*   "batch": src/irrigation_check.py                                      *)
(*            (one check after delay_minutes, durations in whole minutes)  *)
(*                                                                         *)
(* Units: time in seconds, water volume in hundredths of a litre.          *)
(***************************************************************************)
EXTENDS Integers, Sequences, FiniteSets, TLC

VARIABLES
  variant,      \* which app file is deployed: "retry" or "batch"
  args,         \* the app's configuration (self.* set by initialize)
  now,          \* wall clock, seconds
  timers,       \* pending run_in callbacks: [callback, due, data]
  delivered,    \* number of completion events delivered so far
  event,        \* the data of the event delivered last: [entity_id, duration]
  runs,         \* one record per verification task: the event's data dict as
                \* passed to check_usage, and what became of the task
  calls,        \* call_service invocations, in order
  errlog,       \* the kinds of error-level log lines written (self.error)
  last_reported,\* sensor attribute last_reported (a time)
  history,      \* recorded states of the usage sensor: sequence of [t, state]
  reports       \* number of sensor reports so far

vars == <<variant, args, now, timers, delivered, event, runs, calls, errlog,
          last_reported, history, reports>>

-----------------------------------------------------------------------------
(* Bounds of the model *)

MaxEvents == 2
MaxTasks == 1
MaxPairTasks == 2
MaxReports == 1
LastEventTime == 30
MaxTime == 2200
ReportMinutes == 5

(* Inputs *)

None == "None"
SequenceId == "binary_sensor.irrigation_unlimited_c1_s1"
OtherId == "binary_sensor.irrigation_unlimited_c1_s2"
Durations == {30, 180, 200}
\* The completion events delivered: every duration for the monitored sequence,
\* one event of another sequence (its duration is never read).
Events == [entity_id : {SequenceId}, duration : Durations]
            \cup {[entity_id |-> OtherId, duration |-> 200]}
\* A run of zero seconds, which passes the filter when min_duration is 0.
ZeroRun == [entity_id |-> SequenceId, duration |-> 0]
\* Two runs long enough to be verified.
PairEvents == [entity_id : {SequenceId}, duration : {180, 200}]
\* The sensor's reading at the start: 10 litres.
InitialUsage == 10 * 100
UsageValues == {0, 1000, 4000, 4096, 4100}
Variants == {"retry", "batch"}

(* Program constants *)

ValveDelay == 10
SettleDelay == 30
RetryDelay == 60
MaxStalenessMinutes == 30
WarnStalenessMinutes == 10
DefaultMinDuration == 3
DefaultMinExpectedLpm == 10
DefaultDelayMinutes == 10

\* The sensor's reporting cadence, in seconds.
ReportPeriod == ReportMinutes * 60

\* The sensor's last report before the model's time 0.
InitialReport == 0 - ReportPeriod

MaxStaleness == MaxStalenessMinutes * 60
WarnStaleness == WarnStalenessMinutes * 60

-----------------------------------------------------------------------------
(* initialize: the configurations considered *)

RetryArgs ==
  [sequence_entity_id : {SequenceId},
   sprinkler_entity_id : {None, "switch.sprinkler"},
   min_duration : {DefaultMinDuration},
   min_expected_lpm : {DefaultMinExpectedLpm},
   delay_minutes : {0},    \* not an option of this variant
   notify_ok_action : {None, "notify.ok"},
   notify_alert_action : {None, "notify.alert"}]

BatchArgs ==
  [sequence_entity_id : {SequenceId},
   sprinkler_entity_id : {None},
   min_duration : {DefaultMinDuration},
   min_expected_lpm : {DefaultMinExpectedLpm},
   delay_minutes : {DefaultDelayMinutes},
   notify_ok_action : {None},
   notify_alert_action : {None, "notify.alert"}]

\* The state after initialize for configuration a of variant v.
Started(v, a) ==
  /\ variant = v
  /\ args = a
  /\ now = 0
  /\ timers = {}
  /\ delivered = 0
  /\ event = [entity_id |-> None, duration |-> 0]
  /\ runs = <<>>
  /\ calls = <<>>
  /\ errlog = {}
  /\ last_reported = InitialReport
  /\ history = <<[t |-> InitialReport, state |-> InitialUsage]>>
  /\ reports = 0

Init ==
  \E v \in Variants :
    \E a \in (IF v = "retry" THEN RetryArgs ELSE BatchArgs) : Started(v, a)

\* The configurations with min_duration: 0, which let every run through.
InitEdge ==
  \E v \in Variants :
    \E a \in (IF v = "retry" THEN RetryArgs ELSE BatchArgs) :
      Started(v, [a EXCEPT !.min_duration = 0])

\* The retry variant with both notifications and no valve entity configured.
InitPair ==
  \E a \in RetryArgs :
    /\ a.sprinkler_entity_id = None
    /\ a.notify_ok_action # None
    /\ a.notify_alert_action # None
    /\ Started("retry", a)

-----------------------------------------------------------------------------
(* Pure helpers *)

Min(S) == CHOOSE x \in S : \A y \in S : x <= y

\* int(x) on a float number of litres: truncation toward zero.
\* c is in hundredths of a litre, the result in whole litres.
IntLiters(c) == IF c >= 0 THEN c \div 100 ELSE -((-c) \div 100)

\* round(x, 1) on a float number of litres: nearest tenth, in hundredths.
\* (UsageValues holds no value exactly between two tenths.)
Round1(c) == IF c >= 0 THEN ((c + 5) \div 10) * 10 ELSE -(((-c) + 5) \div 10) * 10

\* int(int(seconds) / 60): whole minutes of a non-negative duration.
WholeMinutes(seconds) == seconds \div 60

\* Mutant: the duration in seconds compared with the minimum in minutes.
TooShortSeconds(duration) == duration < args.min_duration

\* retry variant: (duration / 60) < self.min_duration, on exact quotients.
TooShort(duration) == duration < 60 * args.min_duration

\* batch variant: int(int(duration) / 60) < self.min_duration.
TooShortBatch(duration) == WholeMinutes(duration) < args.min_duration

\* Mutant: a flow equal to the minimum passes.
FlowOkOrEqual(usage_liters, duration) ==
  usage_liters * 60 >= args.min_expected_lpm * duration

\* retry variant: lpm = usage_liters / (duration / 60); lpm > self.min_expected_lpm
\* (duration > 0; both sides multiplied by duration / 60).
FlowOk(usage_liters, duration) == usage_liters * 60 > args.min_expected_lpm * duration

\* batch variant: usage_liters > duration * self.min_expected_lpm,
\* usage in hundredths of a litre, duration in whole minutes.
FlowOkBatch(usage, minutes) == usage > minutes * args.min_expected_lpm * 100

\* 'notify.ok'.replace('.', '/')
Service(action) ==
  CASE action = "notify.ok" -> "notify/ok"
    [] action = "notify.alert" -> "notify/alert"
    [] OTHER -> action

\* The recorded states from start_time on, oldest first.
InWindow(start_time) == SelectSeq(history, LAMBDA p : p.t >= start_time)

\* The recorded states older than start_time, oldest first.
Before(start_time) == SelectSeq(history, LAMBDA p : p.t < start_time)

\* get_history(entity_id, start_time=start_time)[0]: what the history service
\* may return for the window. The service is outside the repository: it returns
\* the states recorded in the window, with or without the state that was
\* current at start_time in front of them.
get_history(start_time) ==
  LET older == Before(start_time) IN
  {InWindow(start_time)}
    \cup (IF older # <<>>
          THEN {<<older[Len(older)]>> \o InWindow(start_time)}
          ELSE {})

\* _get_history_state_delta on a non-empty history: last state minus first.
get_history_state_delta(h) == h[Len(h)].state - h[1].state

\* retry variant: start of the history window.
\* datetime.now() - (datetime.now(tz) - finish_time) - timedelta(seconds=duration)
window_start(finish_time, duration) == now - (now - finish_time) - duration

\* batch variant: datetime.now() - timedelta(minutes=history_minutes)
window_start_batch(minutes) == now - 60 * (args.delay_minutes + minutes)

Terminal == {"Confirmed", "Alert", "Abandoned"}

-----------------------------------------------------------------------------
(* Bookkeeping shared by the handlers *)

\* Some completion event may still be delivered.
EventPossible == delivered < MaxEvents /\ now <= LastEventTime

\* The verification tasks started so far.
Tasks == 1..Len(runs)

\* The step starts no more than limit verification tasks in all.
TasksWithin(limit) == Len(runs') <= limit

\* Not set yet.
Unset == 0 - 1

\* The data dict handed to check_usage for a run that passed the filters, with
\* what became of its task: finish_time is the time the event was handled,
\* attempt counts the retries scheduled, queries lists the history queries
\* issued, reported is the sensor's last_reported the final check saw, warned
\* tells that the late-report line was logged.
Task(entity_id, duration) ==
  [entity_id |-> entity_id, duration |-> duration, finish_time |-> now,
   state |-> "Waiting", attempt |-> 0, queries |-> <<>>, reported |-> Unset,
   warned |-> FALSE]

\* Mutant: the callback's data is kept in one place shared by all runs.
TimerSharedData(callback, delay, id) ==
  [callback |-> callback, due |-> now + delay, data |-> 1]

\* self.run_in(callback, delay, data): a callback pending with its own data.
Timer(callback, delay, id) == [callback |-> callback, due |-> now + delay, data |-> id]

\* Mutant: the callback stays scheduled after it fired (as with run_every).
FiredRepeats(tm) == timers

\* run_in schedules a one-shot callback: once it has fired it is pending no more.
Fired(tm) == timers \ {tm}

Query(start_time, h) ==
  [start_time |-> start_time, end_time |-> now, points |-> Len(h),
   delta |-> IF h = <<>> THEN 0 ELSE get_history_state_delta(h)]

Call(id, action, title) == [run |-> id, service |-> Service(action), title |-> title]

-----------------------------------------------------------------------------
(* irrigation_complete, retry variant *)

\* Mutant: the event's entity id is not compared.
IsSequenceAny(entity_id) == TRUE

\* data['entity_id'] == self.sequence_entity_id
IsSequence(entity_id) == entity_id = args.sequence_entity_id

\* Mutant: the valve check is scheduled whether or not a valve is configured.
ValveTimersUnconditional(n) == {Timer("check_valve", ValveDelay, n)}

\* self.run_in(self.check_valve, 10) when a sprinkler entity is configured; n
\* tells the callbacks of different events apart.
ValveTimers(n) ==
  IF args.sprinkler_entity_id # None
  THEN {Timer("check_valve", ValveDelay, n)}
  ELSE {}

irrigation_complete(entity_id, duration) ==
  LET id == Len(runs) + 1 IN
  /\ variant = "retry"
  /\ EventPossible
  /\ delivered' = delivered + 1
  /\ event' = [entity_id |-> entity_id, duration |-> duration]
  /\ IF ~IsSequence(entity_id)
     THEN UNCHANGED <<timers, runs>>
     ELSE IF TooShort(duration)
     THEN /\ timers' = timers \cup ValveTimers(delivered + 1)
          /\ UNCHANGED runs
     ELSE /\ runs' = Append(runs, Task(entity_id, duration))
          /\ timers' = timers \cup ValveTimers(delivered + 1)
                              \cup {Timer("check_usage", SettleDelay, id)}
  /\ UNCHANGED <<variant, args, now, calls, errlog, last_reported, history, reports>>

\* irrigation_complete (either variant) on an event of the configured sequence
\* that carries no run duration: data['run']['duration'] raises KeyError and the
\* handler ends there, in the retry variant after the valve check was scheduled.
irrigation_complete_no_duration(entity_id) ==
  /\ EventPossible
  /\ IsSequence(entity_id)
  /\ delivered' = delivered + 1
  /\ event' = [entity_id |-> entity_id, duration |-> Unset]
  /\ timers' = IF variant = "retry"
                THEN timers \cup ValveTimers(delivered + 1)
                ELSE timers
  /\ UNCHANGED <<variant, args, now, runs, calls, errlog, last_reported,
                 history, reports>>

(* check_valve *)

check_valve(tm) ==
  /\ tm \in timers
  /\ tm.callback = "check_valve"
  /\ tm.due <= now
  /\ timers' = Fired(tm)
  /\ \E state \in {"on", "off"} :
       IF state = "on"
       THEN /\ errlog' = errlog \cup {"valve is on"}
       ELSE /\ errlog' = errlog
  /\ UNCHANGED <<variant, args, now, delivered, event, runs, calls,
                 last_reported, history, reports>>

(* check_usage, retry variant *)

\* Mutant: the comparison reversed.
NotYetReportedReversed(reported, finish_time) == reported > finish_time

\* reported < data['finish_time']
NotYetReported(reported, finish_time) == reported < finish_time

\* Mutant: the retry takes the time of the retry as the run's finish time.
RetryDataRestamped(data) ==
  [data EXCEPT !.attempt = @ + 1, !.state = "Waiting", !.finish_time = now]

\* self.run_in(self.check_usage, 60, data): the retry is handed the same data.
RetryData(data) == [data EXCEPT !.attempt = @ + 1, !.state = "Waiting"]

\* Mutant: the retry is scheduled twice over.
RetryTwice(id) ==
  {Timer("check_usage", RetryDelay, id), Timer("check_usage", 2 * RetryDelay, id)}

\* self.run_in(self.check_usage, 60, data): one further check of the run.
Retry(id) == {Timer("check_usage", RetryDelay, id)}

\* Mutant: the limit taken in hours.
TooOldHours(latency) == latency > MaxStaleness * 60

\* latency > timedelta(minutes=30)
TooOld(latency) == latency > MaxStaleness

\* latency > timedelta(minutes=10): the late report is used, and logged.
SlowReport(latency) == latency > WarnStaleness

\* Mutant: the call is made whether or not an action is configured.
NotifyUnchecked(id, action, title) == <<Call(id, action, title)>>

\* The notification sent for an outcome, if its action is configured.
Notify(id, action, title) ==
  IF action # None THEN <<Call(id, action, title)>> ELSE <<>>

\* The end of check_usage once the sensor is fresh enough: the history query
\* over the window and the classification of its delta.
classify(tm, h) ==
  LET id == tm.data
      duration == runs[id].duration
      start_time == window_start(runs[id].finish_time, duration)
      usage_liters == IntLiters(get_history_state_delta(h))
      latency == last_reported - runs[id].finish_time
      queried == [runs EXCEPT ![id].reported = last_reported,
                              ![id].warned = SlowReport(latency),
                              ![id].queries = Append(@, Query(start_time, h))]
  IN
  /\ timers' = Fired(tm)
  /\ IF h = <<>>
     THEN \* history[0][0] raises IndexError: the callback ends there
          /\ runs' = [queried EXCEPT ![id].state = "Crashed"]
          /\ UNCHANGED calls
     ELSE IF duration = 0
     THEN \* usage_liters / (duration / 60) raises ZeroDivisionError
          /\ runs' = [queried EXCEPT ![id].state = "Crashed"]
          /\ UNCHANGED calls
     ELSE IF FlowOk(usage_liters, duration)
     THEN /\ runs' = [queried EXCEPT ![id].state = "Confirmed"]
          /\ calls' = calls \o Notify(id, args.notify_ok_action, "Irrigation OK")
     ELSE /\ runs' = [queried EXCEPT ![id].state = "Alert"]
          /\ calls' = calls \o Notify(id, args.notify_alert_action, "Irrigation Alert")
  /\ UNCHANGED errlog

check_usage(tm) ==
  LET id == tm.data
      data == runs[id]
      reported == last_reported
      finish_time == data.finish_time
      latency == reported - finish_time
      start_time == window_start(finish_time, data.duration)
  IN
  /\ variant = "retry"
  /\ tm \in timers
  /\ tm.callback = "check_usage"
  /\ tm.due <= now
  /\ IF NotYetReported(reported, finish_time)
     THEN \* wait a bit and check again
          /\ timers' = Fired(tm) \cup Retry(id)
          /\ runs' = [runs EXCEPT ![id] = RetryData(data)]
          /\ UNCHANGED <<calls, errlog>>
     ELSE IF TooOld(latency)
     THEN /\ timers' = Fired(tm)
          /\ runs' = [runs EXCEPT ![id].state = "Abandoned", ![id].reported = reported]
          /\ errlog' = errlog \cup {"too old to check"}
          /\ UNCHANGED calls
     ELSE \E h \in get_history(start_time) : classify(tm, h)
  /\ UNCHANGED <<variant, args, now, delivered, event, last_reported, history, reports>>

-----------------------------------------------------------------------------
(* batch variant *)

irrigation_complete_batch(entity_id, duration) ==
  LET id == Len(runs) + 1 IN
  /\ variant = "batch"
  /\ EventPossible
  /\ delivered' = delivered + 1
  /\ event' = [entity_id |-> entity_id, duration |-> duration]
  /\ IF ~IsSequence(entity_id)
     THEN UNCHANGED <<timers, runs>>
     ELSE IF TooShortBatch(duration)
     THEN UNCHANGED <<timers, runs>>
     ELSE /\ runs' = Append(runs, Task(entity_id, duration))
          /\ timers' = timers \cup {Timer("check_usage", args.delay_minutes * 60, id)}
  /\ UNCHANGED <<variant, args, now, calls, errlog, last_reported, history, reports>>

check_usage_batch(tm) ==
  LET id == tm.data
      data == runs[id]
      duration == WholeMinutes(data.duration)
      start_time == window_start_batch(duration)
  IN
  /\ variant = "batch"
  /\ tm \in timers
  /\ tm.callback = "check_usage"
  /\ tm.due <= now
  /\ timers' = Fired(tm)
  /\ \E h \in get_history(start_time) :
       LET usage_liters == Round1(get_history_state_delta(h))
           queried == [runs EXCEPT ![id].reported = last_reported,
                                   ![id].queries = Append(@, Query(start_time, h))]
       IN
       IF h = <<>>
       THEN \* history[0][0] raises IndexError: the callback ends there
            /\ runs' = [queried EXCEPT ![id].state = "Crashed"]
            /\ UNCHANGED calls
       ELSE IF FlowOkBatch(usage_liters, duration)
       THEN /\ runs' = [queried EXCEPT ![id].state = "Confirmed"]
            /\ UNCHANGED calls
       ELSE /\ runs' = [queried EXCEPT ![id].state = "Alert"]
            /\ calls' = calls \o Notify(id, args.notify_alert_action, "Irrigation Alert")
  /\ UNCHANGED <<variant, args, now, delivered, event, errlog,
                 last_reported, history, reports>>

-----------------------------------------------------------------------------
(* Environment: the usage sensor and the clock *)

\* The sensor reports a reading, which it does on a ReportPeriod cadence:
\* last_reported moves to now, and a state that differs from the current one is
\* recorded in the history.
SensorReport(value) ==
  /\ reports < MaxReports
  /\ now % ReportPeriod = 0
  /\ timers # {} \/ EventPossible
  /\ reports' = reports + 1
  /\ last_reported' = now
  /\ history' = IF value # history[Len(history)].state
                THEN Append(history, [t |-> now, state |-> value])
                ELSE history
  /\ UNCHANGED <<variant, args, now, timers, delivered, event, runs, calls, errlog>>

\* The next moment the sensor may report.
NextSlot == ((now \div ReportPeriod) + 1) * ReportPeriod

\* Time passes up to the next pending callback or the next sensor slot,
\* whichever comes first; with no callback pending, only while an event may
\* still arrive.
Tick ==
  LET dues == {tm.due : tm \in timers}
      slots == IF reports < MaxReports \/ timers = {} THEN {NextSlot} ELSE {}
      t == Min(dues \cup slots)
  IN
  /\ timers # {} \/ (EventPossible /\ NextSlot <= LastEventTime)
  /\ t > now
  /\ t <= MaxTime
  /\ now' = t
  /\ UNCHANGED <<variant, args, timers, delivered, event, runs, calls, errlog,
                 last_reported, history, reports>>

-----------------------------------------------------------------------------

Next ==
  \/ \E e \in Events : /\ irrigation_complete(e.entity_id, e.duration)
                        /\ TasksWithin(MaxTasks)
  \/ \E tm \in timers : check_valve(tm)
  \/ \E tm \in timers : check_usage(tm)
  \/ \E e \in Events : /\ irrigation_complete_batch(e.entity_id, e.duration)
                        /\ TasksWithin(MaxTasks)
  \/ \E tm \in timers : check_usage_batch(tm)
  \/ \E value \in UsageValues : SensorReport(value)
  \/ Tick

Spec == Init /\ [][Next]_vars

\* With min_duration: 0, runs of zero seconds and events without a run duration
\* are delivered as well.
NextEdge ==
  \/ Next
  \/ /\ irrigation_complete(ZeroRun.entity_id, ZeroRun.duration)
     /\ TasksWithin(MaxTasks)
  \/ /\ irrigation_complete_batch(ZeroRun.entity_id, ZeroRun.duration)
     /\ TasksWithin(MaxTasks)
  \/ irrigation_complete_no_duration(SequenceId)

SpecEdge == InitEdge /\ [][NextEdge]_vars

\* Several runs long enough to be verified complete one after the other.
NextPair ==
  \/ \E e \in PairEvents : /\ irrigation_complete(e.entity_id, e.duration)
                            /\ TasksWithin(MaxPairTasks)
  \/ \E tm \in timers : check_usage(tm)
  \/ \E value \in UsageValues : SensorReport(value)
  \/ Tick

SpecPair == InitPair /\ [][NextPair]_vars

-----------------------------------------------------------------------------
(* Properties *)

\* The notification calls made for task i, in order.
CallsFor(i) == SelectSeq(calls, LAMBDA c : c.run = i)

\* The check_usage callbacks pending, and those pending for task i.
UsageTimersAll == {tm \in timers : tm.callback = "check_usage"}
UsageTimers(i) == {tm \in UsageTimersAll : tm.data = i}

\* A step of check_usage for task i: the only handler that changes a task's record.
CheckStep(i) == i \in Tasks /\ runs'[i] # runs[i]

\* A step of irrigation_complete: an event is delivered.
Delivery == delivered' = delivered + 1

\* C1: delivering a completion event of the configured sequence whose run
\* duration is below the configured minimum (min_duration minutes) creates no
\* verification task, schedules no check_usage callback and sends no
\* notification; every task, pending check_usage callback, history query and
\* notification there ever is belongs to a run of at least the minimum duration.
C1_ShortRunNotChecked ==
  /\ [](/\ \A i \in Tasks : /\ runs[i].entity_id = args.sequence_entity_id
                            /\ runs[i].duration >= 60 * args.min_duration
        /\ \A tm \in UsageTimersAll : tm.data \in Tasks
        /\ \A k \in 1..Len(calls) : calls[k].run \in Tasks)
  /\ [][(Delivery
           /\ event'.entity_id = args.sequence_entity_id
           /\ event'.duration < 60 * args.min_duration)
        => /\ runs' = runs
           /\ UsageTimersAll' = UsageTimersAll
           /\ calls' = calls]_vars

\* Scenario C: a short run was delivered and nothing checks it.
C1_Witness ==
  /\ delivered = 1
  /\ event.entity_id = args.sequence_entity_id
  /\ event.duration > 0
  /\ event.duration < 60 * args.min_duration
  /\ args.sprinkler_entity_id # None
  /\ runs = <<>>
  /\ timers = {}
  /\ now >= ValveDelay

\* C2: delivering a completion event whose entity id differs from the
\* configured one changes nothing: it schedules no valve check and no usage
\* check, creates no task, sends no notification, writes no error and leaves
\* every task and every pending callback as they were.
C2_UnmatchedEventIgnored ==
  [][(Delivery /\ event'.entity_id # args.sequence_entity_id)
     => /\ timers' = timers
        /\ runs' = runs
        /\ calls' = calls
        /\ errlog' = errlog]_vars

\* An unmatched event was delivered while a task was waiting for its retry.
C2_Witness ==
  /\ delivered = 2
  /\ event.entity_id # args.sequence_entity_id
  /\ \E i \in Tasks : /\ runs[i].state = "Waiting"
                      /\ runs[i].attempt = 1
                      /\ UsageTimers(i) # {}

\* C3: a task that is in a terminal state (Confirmed, Alert or Abandoned) has
\* no callback pending and stays as it is in every later step, so it enters at
\* most one terminal state; and at most one call to the notification service is
\* ever made for a task.
C3_OneTerminalOneCall ==
  /\ [](\A i \in Tasks : Len(CallsFor(i)) <= 1)
  /\ [][\A i \in Tasks :
          runs[i].state \in Terminal
          => /\ runs'[i] = runs[i]
             /\ UsageTimers(i) = {}
             /\ CallsFor(i)' = CallsFor(i)]_vars

C3_Witness ==
  \E i \in Tasks :
    /\ runs[i].state = "Alert"
    /\ runs[i].attempt >= 1
    /\ Len(CallsFor(i)) = 1
    /\ UsageTimers(i) = {}

\* The last history query issued for run i.
LastQuery(i) == runs[i].queries[Len(runs[i].queries)]

Classified(i) == i \in Tasks /\ runs[i].state \in {"Confirmed", "Alert"}

\* C4 (as claimed): in the retry variant, when the sensor has not reported at
\* or after a run's finish time and the maximum staleness window plus one retry
\* interval has passed, the task is Abandoned and no notification was sent.
C4_StaleTaskAbandoned ==
  \A i \in Tasks :
    (variant = "retry"
       /\ last_reported < runs[i].finish_time
       /\ now > runs[i].finish_time + MaxStaleness + RetryDelay)
    => /\ runs[i].state = "Abandoned"
       /\ CallsFor(i) = <<>>

C6_NotifyMatchesOutcome ==
  \A i \in Tasks :
    CallsFor(i) =
      IF runs[i].state = "Confirmed" /\ args.notify_ok_action # None
      THEN <<[run |-> i, service |-> Service(args.notify_ok_action),
              title |-> "Irrigation OK"]>>
      ELSE IF runs[i].state = "Alert" /\ args.notify_alert_action # None
      THEN <<[run |-> i, service |-> Service(args.notify_alert_action),
              title |-> "Irrigation Alert"]>>
      ELSE <<>>

C6_Witness ==
  \E i \in Tasks :
    /\ runs[i].state = "Confirmed"
    /\ args.notify_ok_action # None
    /\ args.notify_alert_action # None
    /\ Len(CallsFor(i)) = 1
    /\ CallsFor(i)[1].service = "notify/ok"

\* C7: in the retry variant, a check_usage step that finds the sensor's last
\* report more than the maximum staleness after the run's finish time ends the
\* task Abandoned: the step issues no history query, schedules no retry and
\* calls no notification service.
C7_TooOldAbandons ==
  [][\A i \in Tasks :
       (variant = "retry" /\ CheckStep(i)
          /\ last_reported - runs[i].finish_time > MaxStaleness)
       => /\ runs'[i].state = "Abandoned"
          /\ runs'[i].queries = runs[i].queries
          /\ UsageTimers(i)' = {}
          /\ calls' = calls]_vars

C7_Witness ==
  \E i \in Tasks :
    /\ runs[i].state = "Abandoned"
    /\ runs[i].reported - runs[i].finish_time > MaxStaleness
    /\ runs[i].queries = <<>>
    /\ runs[i].attempt >= 1

\* C8 (as claimed): a run whose usage delta over the window is negative ends
\* Abandoned, never Confirmed or Alert, and no notification is sent for it.
C8_NegativeDeltaAbandoned ==
  \A i \in Tasks :
    (runs[i].queries # <<>> /\ LastQuery(i).points >= 2 /\ LastQuery(i).delta < 0)
    => /\ runs[i].state = "Abandoned"
       /\ CallsFor(i) = <<>>

\* C9 (as claimed): a history query that returns fewer than two data points
\* gives no Confirmed or Alert outcome and no notification; the task goes on
\* waiting for a retry unless it is abandoned.
C9_NoDataRetried ==
  \A i \in Tasks :
    (runs[i].queries # <<>> /\ LastQuery(i).points < 2)
    => /\ runs[i].state \in {"Waiting", "Abandoned"}
       /\ CallsFor(i) = <<>>

\* C10: in the retry variant, a check_usage step that finds the sensor's last
\* report earlier than the run's finish time leaves the task Waiting with its
\* run data unchanged and its attempt count one higher, schedules exactly one
\* check_usage for it RetryDelay later, and makes no notification; a step that
\* finds a report at or after the finish time and within the maximum staleness
\* schedules no retry and issues the history query.
C10_StaleRetriesFreshProceeds ==
  [][\A i \in Tasks :
       (variant = "retry" /\ CheckStep(i))
       => IF last_reported < runs[i].finish_time
          THEN /\ runs'[i] = [runs[i] EXCEPT !.attempt = @ + 1]
               /\ runs'[i].state = "Waiting"
               /\ UsageTimers(i)' = {Timer("check_usage", RetryDelay, i)}
               /\ calls' = calls
               /\ errlog' = errlog
          ELSE (last_reported - runs[i].finish_time <= MaxStaleness)
               => /\ Len(runs'[i].queries) = Len(runs[i].queries) + 1
                  /\ UsageTimers(i)' = {}
                  /\ runs'[i].attempt = runs[i].attempt]_vars

\* Scenario D: one stale check, a retry, then a fresh report and a classification.
C10_Witness ==
  \E i \in Tasks :
    /\ variant = "retry"
    /\ runs[i].attempt >= 1
    /\ runs[i].state = "Confirmed"
    /\ runs[i].reported >= runs[i].finish_time
    /\ runs[i].reported - runs[i].finish_time <= MaxStaleness

\* The duration the classification of run i divides or multiplies by: the
\* seconds of the run in the retry variant, its whole minutes in the batch variant.
ClassifiedDuration(i) ==
  IF variant = "retry" THEN runs[i].duration ELSE WholeMinutes(runs[i].duration)

\* C11 (as claimed): a run whose duration, as the classification uses it, is not
\* positive is never classified Confirmed or Alert and never ends in a division
\* fault: a check of it that got its usage delta from the history leaves the
\* task neither Confirmed nor Alert nor crashed.
C11_NonPositiveDurationRejected ==
  \A i \in Tasks :
    (ClassifiedDuration(i) <= 0
       /\ runs[i].queries # <<>>
       /\ LastQuery(i).points >= 1)
    => runs[i].state \notin {"Confirmed", "Alert", "Crashed"}

\* C12 (as claimed): every error met while handling a run is resolved into a
\* retry or a terminal state: a task with no check_usage callback pending is
\* Confirmed, Alert or Abandoned.
C12_ErrorsResolved ==
  \A i \in Tasks :
    UsageTimers(i) = {} => runs[i].state \in Terminal

\* C13 (as claimed): in the retry variant the deadline, finish time plus the
\* maximum staleness, takes priority over retrying: a check_usage step taken
\* after the deadline schedules no further check for the task, and once one
\* retry interval has passed beyond the deadline the task is Abandoned with no
\* check_usage callback pending.
C13_DeadlineBoundsRetries ==
  /\ [](\A i \in Tasks :
          (variant = "retry"
             /\ now > runs[i].finish_time + MaxStaleness + RetryDelay)
          => UsageTimers(i) = {})
  /\ [][\A i \in Tasks :
          (variant = "retry" /\ CheckStep(i)
             /\ now > runs[i].finish_time + MaxStaleness)
          => /\ UsageTimers(i)' = {}
             /\ runs'[i].state = "Abandoned"]_vars

\* C14: for every task at most one check_usage callback is pending at any
\* moment, a task still waiting has exactly one, and a task in a terminal
\* state has none, so that no further check of it ever runs.
C14_OneCheckPending ==
  \A i \in Tasks :
    /\ Cardinality(UsageTimers(i)) <= 1
    /\ runs[i].state = "Waiting" => Cardinality(UsageTimers(i)) = 1
    /\ runs[i].state \in Terminal => UsageTimers(i) = {}

\* A task on its second retry, with its one callback pending.
C14_Witness ==
  \E i \in Tasks :
    /\ runs[i].state = "Waiting"
    /\ runs[i].attempt = 2
    /\ Cardinality(UsageTimers(i)) = 1

\* The states a check_usage step of the retry variant can leave task i in when
\* it reads nothing but the task's own finish time and duration, the sensor's
\* last report and the usage history.
AloneOutcomes(i) ==
  LET finish_time == runs[i].finish_time
      duration == runs[i].duration
  IN
  IF last_reported < finish_time THEN {"Waiting"}
  ELSE IF last_reported - finish_time > MaxStaleness THEN {"Abandoned"}
  ELSE {IF h = <<>> THEN "Crashed"
        ELSE IF IntLiters(h[Len(h)].state - h[1].state) * 60
                  > args.min_expected_lpm * duration
        THEN "Confirmed"
        ELSE "Alert" : h \in get_history(finish_time - duration)}

\* Task j is as it was: its data, its pending callback and its notifications.
Untouched(j) ==
  /\ runs'[j] = runs[j]
  /\ UsageTimers(j)' = UsageTimers(j)
  /\ CallsFor(j)' = CallsFor(j)

\* C15: with several qualifying runs active at once, each has its own task: the
\* delivery of a further event leaves every existing task untouched, a
\* check_usage step of one task leaves every other task untouched and gives its
\* own task the outcome it would give it alone, from the task's own finish time
\* and duration and the sensor's readings, whatever the other tasks are; and at
\* most one notification is ever sent for each task.
C15_TasksIndependent ==
  /\ [](\A i \in Tasks : Len(CallsFor(i)) <= 1)
  /\ [][Delivery => \A j \in Tasks : Untouched(j)]_vars
  /\ [][\A i \in Tasks :
          CheckStep(i)
          => /\ runs'[i].state \in AloneOutcomes(i)
             /\ runs'[i].finish_time = runs[i].finish_time
             /\ runs'[i].duration = runs[i].duration
             /\ \A c \in 1..Len(calls') : c > Len(calls) => calls'[c].run = i
             /\ \A j \in Tasks \ {i} : Untouched(j)]_vars

\* A second run of the same sequence completed while the first task was
\* retrying; the two tasks ended differently, each with its own notification.
C15_Witness ==
  \E i, j \in Tasks :
    /\ runs[j].finish_time > runs[i].finish_time
    /\ runs[i].attempt > runs[j].attempt
    /\ runs[i].state = "Confirmed"
    /\ runs[j].state = "Alert"
    /\ Len(CallsFor(i)) = 1
    /\ Len(CallsFor(j)) = 1

\* C16 (as claimed): every history query of a task covers the window from the
\* start of the run, finish time minus the run's duration in seconds, to the
\* moment of the query, in both variants and however many retries preceded it.
C16_WindowCoversRun ==
  \A i \in Tasks :
    \A q \in 1..Len(runs[i].queries) :
      /\ runs[i].queries[q].start_time = runs[i].finish_time - runs[i].duration
      /\ runs[i].queries[q].end_time >= runs[i].finish_time

\* The check_valve callbacks pending.
ValveTimersAll == {tm \in timers : tm.callback = "check_valve"}

\* A step of check_valve: one of its callbacks fired.
ValveStep == ValveTimersAll \ ValveTimersAll' # {}

\* C17: the delivery of an event of the configured sequence schedules exactly
\* one check_valve callback, ValveDelay later, when a valve entity is
\* configured, and none when it is not; a check_valve step, whatever the valve's
\* state, leaves every task, every pending check_usage callback and the
\* notifications as they were, so it can at most write an error line.
C17_ValveCheckIndependent ==
  /\ [](args.sprinkler_entity_id = None => ValveTimersAll = {})
  /\ [][(Delivery /\ event'.entity_id = args.sequence_entity_id)
         => ValveTimersAll' \ ValveTimersAll =
              IF args.sprinkler_entity_id # None
              THEN {[callback |-> "check_valve", due |-> now + ValveDelay,
                     data |-> delivered']}
              ELSE {}]_vars
  /\ [][ValveStep
         => /\ runs' = runs
            /\ calls' = calls
            /\ UsageTimersAll' = UsageTimersAll
            /\ ValveTimersAll' \subseteq ValveTimersAll]_vars

\* The valve was found on, and the run was verified and confirmed all the same.
C17_Witness ==
  /\ "valve is on" \in errlog
  /\ \E i \in Tasks :
       /\ runs[i].state = "Confirmed"
       /\ Len(CallsFor(i)) = 1
       /\ \A k \in 1..Len(calls) : calls[k].title = "Irrigation OK"

\* The moment after which the sensor's report is too stale for task i.
Deadline(i) == runs[i].finish_time + MaxStaleness

\* C18: in every step a task's finish time, its duration and the deadline
\* derived from the finish time stay as they were set when the task was
\* created, and its attempt count does not decrease: a check_usage step that
\* retries raises the count by one and changes nothing else of the run's data.
C18_RunDataFixed ==
  [][\A i \in Tasks :
       /\ runs'[i].finish_time = runs[i].finish_time
       /\ runs'[i].duration = runs[i].duration
       /\ runs'[i].entity_id = runs[i].entity_id
       /\ Deadline(i)' = Deadline(i)
       /\ runs'[i].attempt >= runs[i].attempt
       /\ runs'[i].attempt <= runs[i].attempt + 1]_vars

\* A task classified after two retries, with the finish time it started with.
C18_Witness ==
  \E i \in Tasks :
    /\ runs[i].attempt >= 2
    /\ runs[i].state \in {"Confirmed", "Alert"}
    /\ runs[i].finish_time < runs[i].reported
    /\ LastQuery(i).start_time = runs[i].finish_time - runs[i].duration

\* A classified task of the retry variant was classified on a report made at
\* or after the run's finish time and at most the maximum staleness after it,
\* and only a classified task has a notification.
FreshWhenClassified(i) ==
  /\ Classified(i)
       => /\ runs[i].reported >= runs[i].finish_time
          /\ runs[i].reported <= runs[i].finish_time + MaxStaleness
  /\ CallsFor(i) # <<>> => Classified(i)

\* The outcome of a classified task is the one its usage delta gives, whether
\* or not the report was late enough for the warning.
LateReportSameOutcome(i) ==
  Classified(i)
    => /\ runs[i].warned = (runs[i].reported - runs[i].finish_time > WarnStaleness)
       /\ runs[i].state = "Confirmed"
            <=> IntLiters(LastQuery(i).delta) * 60
                  > args.min_expected_lpm * runs[i].duration

\* A task issues at most one history query, and a task that issued one is
\* classified (the query is made in the step that classifies).
OneQueryWhenClassified(i) ==
  /\ Len(runs[i].queries) <= 1
  /\ Classified(i) => Len(runs[i].queries) = 1
  /\ runs[i].queries # <<>> => Classified(i)

\* C19 (as claimed): in the retry variant a task is classified, and a
\* notification sent, only on a report within [finish time, finish time +
\* maximum staleness]; a report later than the warning staleness gives the same
\* outcome as a fresh one with the same delta; and the task issues at most one
\* history query, in the step that classifies it.
C19_ClassifiedOnFreshReportOnce ==
  \A i \in Tasks :
    variant = "retry"
    => /\ FreshWhenClassified(i)
       /\ LateReportSameOutcome(i)
       /\ OneQueryWhenClassified(i)

====
